---- MODULE Spec2Model ----
(***************************************************************************)
(* BleFinder: the useBleManager hook (scan, connect, detail fetch,         *)
(* disconnect, auto-reconnect, switch) and the parts of App / DeviceItem   *)
(* that call it or render its state.                                       *)
(*                                                                         *)
(* React state is the hook's useState cells.  Every step below is one     *)
(* synchronous segment of a handler or of an async function (from its call *)
(* or resumption up to its next await); the render that follows a segment  *)
(* is taken with it, so the callbacks the UI and the disconnect            *)
(* subscription hold always close over the state as of the last segment,   *)
(* while an async function that is suspended keeps the values it closed    *)
(* over when it was called.                                                *)
(***************************************************************************)
EXTENDS Integers, Sequences, FiniteSets, Bags, TLC

VARIABLES
    devices,            \* useState<Device[]>: the registry, in discovery order
    connectedDevice,    \* useState<Device | null>: the id of the device, or Null
    deviceDetails,      \* useState<DeviceDetails | null>
    isConnecting,       \* useState<boolean>
    shouldReconnect,    \* useState<boolean>
    reconnectAttempts,  \* useState<number>
    scanning,           \* the BLE stack has a device scan running
    tasks,              \* bag of suspended async calls and pending setTimeout callbacks
    gatt,               \* the peripherals in range, by id: what each answers to
                        \* services() and characteristics()
    modalVisible,       \* App's useState(false): the detail modal is shown
    limit,              \* the total weight of suspended calls and pending timers
                        \* this behaviour is explored up to
    last                \* the segment that produced this state

vars == <<devices, connectedDevice, deviceDetails, isConnecting, shouldReconnect,
          reconnectAttempts, scanning, tasks, gatt, modalVisible, limit, last>>

hookState == <<devices, connectedDevice, deviceDetails, isConnecting, shouldReconnect,
               reconnectAttempts>>

----------------------------------------------------------------------------
(* Bounds of the model *)

\* total weight of suspended calls and pending timers
MaxTasks == 2

----------------------------------------------------------------------------
(* Values *)

Null == "null"

\* a characteristic value that is null (a value is a sequence of characters)
NoValue == <<"null">>

\* deviceDetails === null
NoDetails == [isNull |-> TRUE]

Ids == {"A", "B"}

\* device.name of an advertisement: null, empty or a name
Names == {Null, "", "n"}

MAX_RECONNECT_ATTEMPTS == 3

BatteryService == "180F"

BatteryCharacteristic == "2A19"

InfoService == "180A"

Characteristic(uuid, value) == [uuid |-> uuid, value |-> value]

\* the GATT table of the two peripherals of the lifecycle model
MainGatt ==
    [d \in Ids |->
        IF d = "A"
        THEN [services |-> <<BatteryService, InfoService>>,
              characteristics |->
                  (BatteryService :> <<Characteristic(BatteryCharacteristic, <<"6", "4">>)>>)
                  @@ (InfoService :> <<Characteristic("2A29", NoValue)>>)]
        ELSE [services |-> <<InfoService>>,
              characteristics |-> (InfoService :> <<Characteristic("2A29", NoValue)>>)]]

Range(s) == {s[i] : i \in DOMAIN s}

----------------------------------------------------------------------------
(* Suspended calls and timers *)

\* connectToDevice(dev, attempts) suspended at an await; sw: it was called by
\* switchToDevice, which resumes after it with setShouldReconnect(true)
ConnectTask(dev, attempts, pc, sw) ==
    [kind |-> "connect", dev |-> dev, attempts |-> attempts, pc |-> pc, sw |-> sw]

\* handleDisconnect(dev) suspended at await cancelDeviceConnection; wanted: the
\* test it makes after the await, which reads nothing but the shouldReconnect and
\* reconnectAttempts of its closure and so is settled when it is called; by: who
\* called it; next: the device switchToDevice connects to after it (Null otherwise)
DisconnectTask(dev, wanted, by, next) ==
    [kind |-> "disconnect", dev |-> dev, wanted |-> wanted, by |-> by, next |-> next]

\* setTimeout(() => connectToDevice(dev, attempts), 2000)
Timer(dev, attempts) == [kind |-> "timer", dev |-> dev, attempts |-> attempts]

Add(b, t) == b (+) SetToBag({t})

Remove(b, t) == b (-) SetToBag({t})

Pending(kind) == {t \in BagToSet(tasks) : t.kind = kind}

\* a suspended switchToDevice disconnect resumes into a timer and a connect
Weight(t) == IF t.kind = "disconnect" /\ t.next # Null THEN 2 ELSE 1

RECURSIVE LoadOf(_, _)
LoadOf(S, b) ==
    IF S = {} THEN 0
    ELSE LET t == CHOOSE x \in S : TRUE
         IN  CopiesIn(t, b) * Weight(t) + LoadOf(S \ {t}, b)

Load == LoadOf(BagToSet(tasks), tasks)

----------------------------------------------------------------------------
(* Initial state: the hook's useState initial values, nothing started *)

InitHook ==
    /\ devices = <<>>
    /\ connectedDevice = Null
    /\ deviceDetails = NoDetails
    /\ isConnecting = FALSE
    /\ shouldReconnect = TRUE
    /\ reconnectAttempts = 0
    /\ scanning = FALSE
    /\ tasks = EmptyBag
    /\ modalVisible = FALSE
    /\ last = [op |-> "init"]

\* two peripherals in range
Init == InitHook /\ gatt = MainGatt /\ limit = MaxTasks

\* one peripheral in range
InitOne == InitHook /\ gatt = [d \in {"B"} |-> MainGatt[d]] /\ limit = MaxTasks

\* one peripheral in range, one more suspended call or timer explored
InitDeep == InitHook /\ gatt = [d \in {"B"} |-> MainGatt[d]] /\ limit = MaxTasks + 1

----------------------------------------------------------------------------
(* App's detail modal *)

\* faulty variant: the modal is shown exactly while both are present
ModalFollows(device, details) == device # Null /\ details # NoDetails

\* modalVisible after the effect on [connectedDevice, deviceDetails] ran in the
\* render that follows a setConnectedDevice or a setDeviceDetails
ModalEffect(device, details) ==
    IF device # Null /\ details # NoDetails THEN TRUE ELSE modalVisible

\* the modal's Close button and onRequestClose
CloseModal ==
    /\ modalVisible
    /\ modalVisible' = FALSE
    /\ last' = [op |-> "closeModal"]
    /\ UNCHANGED <<hookState, scanning, tasks, gatt, limit>>

----------------------------------------------------------------------------
(* Scan *)

isDuplicate(devs, nextDevice) ==
    \E i \in DOMAIN devs : nextDevice.id = devs[i].id

\* JavaScript truthiness of device.name
Truthy(name) == name # Null /\ name # ""

\* faulty variant: setDeviceDetails(null) is missing
scanDevicesKeepsDetails ==
    /\ devices' = <<>>
    /\ connectedDevice' = Null
    /\ scanning' = TRUE
    /\ last' = [op |-> "scanDevices",
                was |-> [connected |-> connectedDevice,
                         details |-> deviceDetails # NoDetails,
                         count |-> Len(devices),
                         connecting |-> isConnecting]]
    /\ modalVisible' = ModalEffect(Null, deviceDetails)
    /\ UNCHANGED <<deviceDetails, isConnecting, shouldReconnect, reconnectAttempts,
                   tasks, gatt, limit>>

\* the Start Scan button
scanDevices ==
    /\ devices' = <<>>
    /\ connectedDevice' = Null
    /\ deviceDetails' = NoDetails
    /\ scanning' = TRUE
    /\ last' = [op |-> "scanDevices",
                was |-> [connected |-> connectedDevice,
                         details |-> deviceDetails # NoDetails,
                         count |-> Len(devices),
                         connecting |-> isConnecting]]
    /\ modalVisible' = ModalEffect(Null, NoDetails)
    /\ UNCHANGED <<isConnecting, shouldReconnect, reconnectAttempts, tasks, gatt, limit>>

\* faulty variant: the name is not tested
DiscoveredUnnamedToo(devs, device) ==
    IF ~isDuplicate(devs, device) THEN Append(devs, device) ELSE devs

\* the registry after the scan callback got (null, device)
Discovered(devs, device) ==
    IF Truthy(device.name)
    THEN IF ~isDuplicate(devs, device) THEN Append(devs, device) ELSE devs
    ELSE devs

\* the scan callback with a device
ScanResult(id, name) ==
    /\ scanning
    /\ devices' = Discovered(devices, [id |-> id, name |-> name])
    /\ last' = [op |-> "scanResult", added |-> devices' # devices]
    /\ UNCHANGED <<connectedDevice, deviceDetails, isConnecting, shouldReconnect,
                   reconnectAttempts, scanning, tasks, gatt, modalVisible, limit>>

\* the scan callback with an error: logged, the scan goes on
ScanError ==
    /\ scanning
    /\ last' = [op |-> "scanError"]
    /\ UNCHANGED <<hookState, scanning, tasks, gatt, modalVisible, limit>>

----------------------------------------------------------------------------
(* connectToDevice and getServicesAndCharacteristics *)

\* connectToDevice up to its first await: setIsConnecting(true) and the call of
\* bleManager.connectToDevice
ConnectCall(b, dev, attempts, sw) ==
    Add(b, ConnectTask(dev, attempts, "connectToDevice", sw))

\* what a resumption of connect task t did: op, the await that returned; ok, it
\* returned without throwing; done, connectToDevice returned to its caller in
\* this step; was, the counter before the step; failed, the services whose
\* characteristics() threw
StepOf(t, op, ok, done) ==
    [op |-> op, dev |-> t.dev, attempts |-> t.attempts, sw |-> t.sw, ok |-> ok,
     done |-> done, was |-> reconnectAttempts, failed |-> {}]

\* faulty variant: the bound compared without the - 1
RetryAllowedOneMore(attempts) == attempts < MAX_RECONNECT_ATTEMPTS

\* the catch block's test for another attempt
RetryAllowed(attempts) == attempts < MAX_RECONNECT_ATTEMPTS - 1

\* the bag after the catch block of connect task t
AfterCatch(t) ==
    IF RetryAllowed(t.attempts)
    THEN Add(Remove(tasks, t), Timer(t.dev, t.attempts + 1))
    ELSE Remove(tasks, t)

\* faulty variant: switchToDevice ends without setShouldReconnect(true)
AfterReturnStaysOff(t) == shouldReconnect

\* shouldReconnect after connect task t returned: switchToDevice, if it is the
\* caller, resumes with setShouldReconnect(true)
AfterReturn(t) == IF t.sw THEN TRUE ELSE shouldReconnect

\* faulty variant: the catch block also clears the connected device
ConnectFailedDisconnects(t, op) ==
    /\ tasks' = AfterCatch(t)
    /\ isConnecting' = FALSE
    /\ shouldReconnect' = AfterReturn(t)
    /\ connectedDevice' = Null
    /\ last' = StepOf(t, op, FALSE, TRUE)
    /\ UNCHANGED <<devices, deviceDetails, reconnectAttempts, scanning, gatt,
                   modalVisible, limit>>

\* catch and finally of connectToDevice, then the return to the caller
ConnectFailed(t, op) ==
    /\ tasks' = AfterCatch(t)
    /\ isConnecting' = FALSE
    /\ shouldReconnect' = AfterReturn(t)
    /\ last' = StepOf(t, op, FALSE, TRUE)
    /\ UNCHANGED <<devices, connectedDevice, deviceDetails, reconnectAttempts,
                   scanning, gatt, modalVisible, limit>>

\* faulty variant: the counter is reset inside the detail fetch's try block
AttemptsAfterFetchOnly(fetched) == IF fetched THEN 0 ELSE reconnectAttempts

\* reconnectAttempts after getServicesAndCharacteristics returned to
\* connectToDevice; fetched: the detail fetch did not throw internally
AttemptsAfterConnect(fetched) == 0

\* connectToDevice after getServicesAndCharacteristics returned: the reset of
\* the counter, finally, and the return to the caller
ConnectFinished(t, fetched) ==
    /\ tasks' = Remove(tasks, t)
    /\ reconnectAttempts' = AttemptsAfterConnect(fetched)
    /\ isConnecting' = FALSE
    /\ shouldReconnect' = AfterReturn(t)

\* await bleManager.connectToDevice(deviceId) returns
ConnectReturned(t, ok) ==
    /\ t \in Pending("connect") /\ t.pc = "connectToDevice"
    /\ IF ok
       THEN /\ tasks' = Add(Remove(tasks, t), [t EXCEPT !.pc = "discoverAll"])
            /\ last' = StepOf(t, "connectToDevice", TRUE, FALSE)
            /\ UNCHANGED <<hookState, scanning, gatt, modalVisible, limit>>
       ELSE ConnectFailed(t, "connectToDevice")

\* await device.discoverAllServicesAndCharacteristics() returns; on success
\* setConnectedDevice, stopDeviceScan and the call of device.services()
DiscoverReturned(t, ok) ==
    /\ t \in Pending("connect") /\ t.pc = "discoverAll"
    /\ IF ok
       THEN /\ connectedDevice' = t.dev
            /\ scanning' = FALSE
            /\ tasks' = Add(Remove(tasks, t), [t EXCEPT !.pc = "services"])
            /\ modalVisible' = ModalEffect(t.dev, deviceDetails)
            /\ last' = StepOf(t, "discoverAll", TRUE, FALSE)
            /\ UNCHANGED <<devices, deviceDetails, isConnecting, shouldReconnect,
                           reconnectAttempts, gatt, limit>>
       ELSE ConnectFailed(t, "discoverAll")

\* await device.services() returns; a failure is caught and logged inside
\* getServicesAndCharacteristics, which then returns normally
ServicesReturned(t, ok) ==
    /\ t \in Pending("connect") /\ t.pc = "services"
    /\ last' = StepOf(t, "services", ok, ~ok)
    /\ IF ok
       THEN /\ tasks' = Add(Remove(tasks, t), [t EXCEPT !.pc = "characteristics"])
            /\ UNCHANGED <<hookState, scanning, gatt, modalVisible, limit>>
       ELSE /\ ConnectFinished(t, FALSE)
            /\ UNCHANGED <<devices, connectedDevice, deviceDetails, scanning, gatt,
                           modalVisible, limit>>

\* faulty variant: no inner try/catch, the services whose call threw get no entry
CharacteristicsOfTheOthers(profile, failed) ==
    [s \in Range(profile.services) \ failed |-> profile.characteristics[s]]

\* characteristicsByServiceUUID once every service.characteristics() of the
\* Promise.all has settled; failed: the services whose call threw
CharacteristicsByServiceUUID(profile, failed) ==
    [s \in Range(profile.services) |->
        IF s \in failed THEN <<>> ELSE profile.characteristics[s]]

\* the value passed to setDeviceDetails
FetchedDetails(profile, failed) ==
    [services |-> profile.services,
     characteristics |-> CharacteristicsByServiceUUID(profile, failed)]

\* await Promise.all(...) returns: setDeviceDetails, then connectToDevice goes on.
\* The calls of the Promise.all settle one by one into a map local to the fetch;
\* the step is taken when the last one has settled.
CharacteristicsReturned(t, failed) ==
    /\ t \in Pending("connect") /\ t.pc = "characteristics"
    /\ deviceDetails' = FetchedDetails(gatt[t.dev], failed)
    /\ modalVisible' = ModalEffect(connectedDevice, deviceDetails')
    /\ ConnectFinished(t, TRUE)
    /\ last' = [StepOf(t, "characteristics", TRUE, TRUE) EXCEPT !.failed = failed]
    /\ UNCHANGED <<devices, connectedDevice, scanning, gatt, limit>>

\* a retry or reconnect timer fires: connectToDevice(dev, attempts)
TimerFired(t) ==
    /\ t \in Pending("timer")
    /\ tasks' = ConnectCall(Remove(tasks, t), t.dev, t.attempts, FALSE)
    /\ isConnecting' = TRUE
    /\ last' = [op |-> "timer", dev |-> t.dev, attempts |-> t.attempts]
    /\ UNCHANGED <<devices, connectedDevice, deviceDetails, shouldReconnect,
                   reconnectAttempts, scanning, gatt, modalVisible, limit>>

----------------------------------------------------------------------------
(* handleDisconnect, the disconnect subscription, switchToDevice *)

\* the test after await cancelDeviceConnection, on the closure's values
ReconnectWanted(sr, ra) == sr /\ ra < MAX_RECONNECT_ATTEMPTS

\* handleDisconnect up to its await: the two setters and the call of
\* bleManager.cancelDeviceConnection; the closure holds the shouldReconnect and
\* reconnectAttempts of the render it was created in
HandleDisconnectCall(dev, by, next) ==
    /\ connectedDevice' = Null
    /\ deviceDetails' = NoDetails
    /\ modalVisible' = ModalEffect(Null, NoDetails)
    /\ tasks' = Add(tasks, DisconnectTask(dev,
                         ReconnectWanted(shouldReconnect, reconnectAttempts), by, next))

\* await bleManager.cancelDeviceConnection(deviceId) returns; a failure is caught
\* and logged. When switchToDevice is the caller it resumes with
\* connectToDevice(next).
CancelReturned(t, ok) ==
    /\ t \in Pending("disconnect")
    /\ LET schedule == ok /\ t.wanted
           rest == IF schedule
                   THEN Add(Remove(tasks, t), Timer(t.dev, 0))
                   ELSE Remove(tasks, t)
       IN  /\ reconnectAttempts' =
                  IF schedule THEN reconnectAttempts + 1 ELSE reconnectAttempts
           /\ IF t.next # Null
              THEN /\ tasks' = ConnectCall(rest, t.next, 0, TRUE)
                   /\ isConnecting' = TRUE
              ELSE /\ tasks' = rest
                   /\ UNCHANGED isConnecting
    /\ last' = [op |-> "cancelDeviceConnection", dev |-> t.dev, by |-> t.by,
                ok |-> ok, next |-> t.next, wanted |-> t.wanted,
                was |-> reconnectAttempts]
    /\ UNCHANGED <<devices, connectedDevice, deviceDetails, shouldReconnect,
                   scanning, gatt, modalVisible, limit>>

\* the listener of bleManager.onDeviceDisconnected(connectedDevice.id, ...)
DeviceDisconnected(error) ==
    /\ connectedDevice # Null
    /\ IF error
       THEN /\ last' = [op |-> "onDeviceDisconnected", dev |-> connectedDevice,
                        error |-> TRUE]
            /\ UNCHANGED <<hookState, scanning, tasks, gatt, modalVisible, limit>>
       ELSE /\ Load + 1 <= limit
            /\ HandleDisconnectCall(connectedDevice, "event", Null)
            /\ last' = [op |-> "handleDisconnect", dev |-> connectedDevice,
                        by |-> "event"]
            /\ UNCHANGED <<devices, isConnecting, shouldReconnect, reconnectAttempts,
                           scanning, gatt, limit>>

\* switchToDevice up to its first await
switchToDevice(deviceId) ==
    /\ shouldReconnect' = FALSE
    /\ last' = [op |-> "switchToDevice", dev |-> deviceId, from |-> connectedDevice]
    /\ IF connectedDevice # Null
       THEN /\ Load + 2 <= limit
            /\ HandleDisconnectCall(connectedDevice, "switch", deviceId)
            /\ UNCHANGED <<devices, isConnecting, reconnectAttempts, scanning, gatt, limit>>
       ELSE /\ Load + 1 <= limit
            /\ tasks' = ConnectCall(tasks, deviceId, 0, TRUE)
            /\ isConnecting' = TRUE
            /\ UNCHANGED <<devices, connectedDevice, deviceDetails, reconnectAttempts,
                           scanning, gatt, modalVisible, limit>>

\* handleDisconnect as the onPress of the connected device's item
handleDisconnect(deviceId) ==
    /\ Load + 1 <= limit
    /\ HandleDisconnectCall(deviceId, "user", Null)
    /\ last' = [op |-> "handleDisconnect", dev |-> deviceId, by |-> "user"]
    /\ UNCHANGED <<devices, isConnecting, shouldReconnect, reconnectAttempts,
                   scanning, gatt, limit>>

----------------------------------------------------------------------------
(* App and DeviceItem *)

\* the isConnected prop renderItem gives the item
ItemIsConnected(item) == connectedDevice = item.id

\* the isConnecting prop renderItem gives the item
ItemIsConnecting(item) == isConnecting /\ connectedDevice = item.id

\* the Connect / Disconnect button of the i-th item of the list
PressButton(i) ==
    /\ i \in DOMAIN devices
    /\ ~ItemIsConnecting(devices[i])
    /\ IF ItemIsConnected(devices[i])
       THEN handleDisconnect(devices[i].id)
       ELSE switchToDevice(devices[i].id)

----------------------------------------------------------------------------
(* The battery reading: App.getBatteryLevel and DeviceItem's Battery line *)

\* a JavaScript number | undefined
Undefined == [kind |-> "undefined"]

NaN == [kind |-> "NaN"]

Number(n) == [kind |-> "number", n |-> n]

HexDigits ==
    <<"0", "1", "2", "3", "4", "5", "6", "7", "8", "9", "a", "b", "c", "d", "e", "f">>

UpperHexDigits ==
    <<"0", "1", "2", "3", "4", "5", "6", "7", "8", "9", "A", "B", "C", "D", "E", "F">>

IsHexDigit(c) == c \in Range(HexDigits) \cup Range(UpperHexDigits)

DigitValue(c) ==
    (CHOOSE i \in 1..16 : HexDigits[i] = c \/ UpperHexDigits[i] = c) - 1

Drop(s, n) == SubSeq(s, n + 1, Len(s))

RECURSIVE TrimStart(_)
TrimStart(s) == IF s # <<>> /\ Head(s) = " " THEN TrimStart(Tail(s)) ELSE s

\* the digits of s up to its first character that is no hexadecimal digit
RECURSIVE DigitPrefix(_)
DigitPrefix(s) ==
    IF s # <<>> /\ IsHexDigit(Head(s)) THEN <<Head(s)>> \o DigitPrefix(Tail(s)) ELSE <<>>

RECURSIVE MathInt(_, _)
MathInt(digits, acc) ==
    IF digits = <<>> THEN acc
    ELSE MathInt(Tail(digits), 16 * acc + DigitValue(Head(digits)))

\* parseInt(value, 16): leading white space, a sign and a 0x prefix are skipped,
\* the digits end at the first character that is none, no digit gives NaN
parseInt16(value) ==
    LET s == TrimStart(value)
        signed == s # <<>> /\ Head(s) \in {"+", "-"}
        unsigned == IF signed THEN Tail(s) ELSE s
        prefixed == Len(unsigned) >= 2 /\ unsigned[1] = "0" /\ unsigned[2] \in {"x", "X"}
        digits == DigitPrefix(IF prefixed THEN Drop(unsigned, 2) ELSE unsigned)
    IN  IF digits = <<>> THEN NaN
        ELSE Number(IF signed /\ Head(s) = "-" THEN 0 - MathInt(digits, 0)
                    ELSE MathInt(digits, 0))

\* batteryCharacteristics.find(char => char.uuid === '2A19'): the index of the
\* first match, 0 when there is none
FindCharacteristic(list, uuid) ==
    IF \E i \in DOMAIN list : list[i].uuid = uuid
    THEN CHOOSE i \in DOMAIN list :
             list[i].uuid = uuid /\ \A j \in 1..(i - 1) : list[j].uuid # uuid
    ELSE 0

\* JavaScript truthiness of characteristic.value
ValueTruthy(value) == value # NoValue /\ value # <<>>

getBatteryLevel ==
    IF deviceDetails # NoDetails
       /\ BatteryService \in DOMAIN deviceDetails.characteristics
    THEN LET list == deviceDetails.characteristics[BatteryService]
             i == FindCharacteristic(list, BatteryCharacteristic)
         IN  IF i # 0 /\ ValueTruthy(list[i].value)
             THEN parseInt16(list[i].value)
             ELSE Undefined
    ELSE Undefined

\* the batteryLevel prop renderItem gives the item
ItemBatteryLevel(item) ==
    IF connectedDevice = item.id THEN getBatteryLevel ELSE Undefined

DecimalDigits == <<"0", "1", "2", "3", "4", "5", "6", "7", "8", "9">>

RECURSIVE Decimal(_)
Decimal(n) ==
    IF n < 0 THEN <<"-">> \o Decimal(0 - n)
    ELSE IF n < 10 THEN <<DecimalDigits[n + 1]>>
    ELSE Decimal(n \div 10) \o <<DecimalDigits[(n % 10) + 1]>>

\* JavaScript truthiness of the batteryLevel prop
LevelTruthy(level) == level.kind = "number" /\ level.n # 0

\* the text DeviceItem puts after "Battery: "
BatteryText(level) ==
    IF LevelTruthy(level) THEN Decimal(level.n) \o <<"%">> ELSE <<"N", "A">>

----------------------------------------------------------------------------
(* The lifecycle specification *)

\* The Modal covers the screen while it is shown: the Start Scan button and the
\* list beneath it take no touch until it is closed.
Next ==
    \/ ~modalVisible /\ scanDevices
    \/ \E id \in DOMAIN gatt, name \in Names : ScanResult(id, name)
    \/ ScanError
    \/ \E i \in DOMAIN devices : ~modalVisible /\ PressButton(i)
    \/ CloseModal
    \/ \E error \in BOOLEAN : DeviceDisconnected(error)
    \/ \E t \in Pending("disconnect"), ok \in BOOLEAN : CancelReturned(t, ok)
    \/ \E t \in Pending("connect"), ok \in BOOLEAN : ConnectReturned(t, ok)
    \/ \E t \in Pending("connect"), ok \in BOOLEAN : DiscoverReturned(t, ok)
    \/ \E t \in Pending("connect"), ok \in BOOLEAN : ServicesReturned(t, ok)
    \/ \E t \in Pending("connect") :
           \E failed \in SUBSET Range(gatt[t.dev].services) :
               CharacteristicsReturned(t, failed)
    \/ \E t \in Pending("timer") : TimerFired(t)

Spec == Init /\ [][Next]_vars

SpecOne == InitOne /\ [][Next]_vars

SpecDeep == InitDeep /\ [][Next]_vars

\* a suspended call that a switchToDevice awaits
SwitchCall(t) ==
    \/ t.kind = "connect" /\ t.sw
    \/ t.kind = "disconnect" /\ t.next # Null

\* a BLE call that a switchToDevice awaits returns, with or without an error
SwitchCallReturns ==
    \E t \in BagToSet(tasks) :
        /\ SwitchCall(t)
        /\ \/ \E ok \in BOOLEAN : CancelReturned(t, ok)
           \/ \E ok \in BOOLEAN : ConnectReturned(t, ok)
           \/ \E ok \in BOOLEAN : DiscoverReturned(t, ok)
           \/ \E ok \in BOOLEAN : ServicesReturned(t, ok)
           \/ \E failed \in SUBSET Range(gatt[t.dev].services) :
                  CharacteristicsReturned(t, failed)

\* the lifecycle with a BLE stack that answers the calls of every switchToDevice
SpecFair == Init /\ [][Next]_vars /\ WF_vars(SwitchCallReturns)

----------------------------------------------------------------------------
(* The detail specification: one peripheral whose battery service varies, a BLE
   stack that answers every call but may fail any service's characteristics(), a
   user who scans and connects *)

\* the values the battery characteristic is read with
BatteryValues ==
    {NoValue, <<>>, <<"6", "4">>, <<"0">>, <<"0", "0">>, <<"f", "f">>, <<"1", "A">>,
     <<"0", "x", "6", "4">>, <<"7", "z">>, <<"z">>}

\* the lists service 180F answers with
BatteryLists ==
    {<<>>}
    \cup {<<Characteristic(BatteryCharacteristic, v)>> : v \in BatteryValues}
    \cup {<<Characteristic("2A1A", <<"0", "1">>), Characteristic(BatteryCharacteristic, v)>> :
              v \in BatteryValues}

BatteryProfiles ==
    {[services |-> <<InfoService>>,
      characteristics |-> (InfoService :> <<Characteristic("2A29", NoValue)>>)]}
    \cup {[services |-> <<BatteryService, InfoService>>,
           characteristics |-> (BatteryService :> list)
                               @@ (InfoService :> <<Characteristic("2A29", NoValue)>>)] :
              list \in BatteryLists}

InitDetail ==
    /\ InitHook
    /\ gatt \in {[d \in Ids |-> IF d = "A" THEN p ELSE MainGatt[d]] : p \in BatteryProfiles}
    /\ limit = MaxTasks

NextDetail ==
    \/ ~modalVisible /\ scanDevices
    \/ \E id \in DOMAIN gatt, name \in Names : ScanResult(id, name)
    \/ ScanError
    \/ \E i \in DOMAIN devices :
           ~modalVisible /\ connectedDevice = Null /\ tasks = EmptyBag /\ PressButton(i)
    \/ CloseModal
    \/ \E t \in Pending("connect") : ConnectReturned(t, TRUE)
    \/ \E t \in Pending("connect") : DiscoverReturned(t, TRUE)
    \/ \E t \in Pending("connect") : ServicesReturned(t, TRUE)
    \/ \E t \in Pending("connect") :
           \E failed \in SUBSET Range(gatt[t.dev].services) :
               CharacteristicsReturned(t, failed)

SpecDetail == InitDetail /\ [][NextDetail]_vars

----------------------------------------------------------------------------
(* Properties *)

ConnectOps == {"connectToDevice", "discoverAll", "services", "characteristics"}

\* the step into this state was a connect attempt failing: the underlying connect
\* or the discovery threw
AttemptFailed == last.op \in {"connectToDevice", "discoverAll"} /\ ~last.ok

\* the step into this state completed a connect attempt that had succeeded
AttemptSucceeded == last.op \in {"services", "characteristics"} /\ last.done

\* the step into this state was the return of a connectToDevice that
\* switchToDevice awaited, after which switchToDevice itself returned
SwitchReturned == last.op \in ConnectOps /\ last.done /\ last.sw

TimerCopies(b, dev, attempts) == CopiesIn(Timer(dev, attempts), b)

RECURSIVE CopiesOfAll(_, _)
CopiesOfAll(S, b) ==
    IF S = {} THEN 0
    ELSE LET t == CHOOSE x \in S : TRUE
         IN  CopiesIn(t, b) + CopiesOfAll(S \ {t}, b)

\* the connectToDevice calls that have not returned
ConnectsInFlight == CopiesOfAll(Pending("connect"), tasks)

\* C1: when switchToDevice disconnects the connected device and the disconnect
\* succeeds, the step schedules no reconnect to that device; and the connected
\* device is replaced or cleared only by a scan start, a switch or a disconnect
\* (pressed or reported by the BLE stack), never by a timer's connect.
C1_SwitchSchedulesNoReconnect ==
    /\ [][(last'.op = "cancelDeviceConnection" /\ last'.by = "switch" /\ last'.ok)
             => TimerCopies(tasks', last'.dev, 0) <= TimerCopies(tasks, last'.dev, 0)]_vars
    /\ [][(connectedDevice # Null /\ connectedDevice' # connectedDevice)
             => last'.op \in {"scanDevices", "switchToDevice", "handleDisconnect"}]_vars

\* C2: the reconnect-attempt counter grows only in the handling of a disconnect
\* that the BLE stack reported (whose handler, called with the current render's
\* closure, saw auto-reconnect enabled), never in a disconnect the user pressed
\* or a switch.
C2_OnlyUnsolicitedIncrements ==
    [][reconnectAttempts' > reconnectAttempts
          => (last'.op = "cancelDeviceConnection" /\ last'.by = "event")]_vars

\* C3: when a handleDisconnect the user pressed has finished, and when a
\* switchToDevice has finished, the reconnect-attempt counter is 0.
C3_ZeroAfterUserAction ==
    /\ (last.op = "cancelDeviceConnection" /\ last.by = "user") => reconnectAttempts = 0
    /\ SwitchReturned => reconnectAttempts = 0

\* C4: attempts are numbered 0, 1, 2 and no other; a failed attempt below 2
\* schedules exactly one retry, numbered one higher, and the failed attempt 2
\* schedules none; a retry timer is scheduled by nothing but such a failure; a
\* timer that fires starts exactly the attempt it carries.
C4_ThreeAttempts ==
    /\ [](\A t \in BagToSet(tasks) :
             t.kind \in {"connect", "timer"} => t.attempts \in 0..(MAX_RECONNECT_ATTEMPTS - 1))
    /\ [][AttemptFailed'
             => \A d \in Ids, a \in 1..MAX_RECONNECT_ATTEMPTS :
                    TimerCopies(tasks', d, a) =
                        TimerCopies(tasks, d, a)
                        + (IF d = last'.dev /\ a = last'.attempts + 1
                              /\ last'.attempts < MAX_RECONNECT_ATTEMPTS - 1
                           THEN 1 ELSE 0)]_vars
    /\ [][(\E d \in Ids, a \in 1..MAX_RECONNECT_ATTEMPTS :
               TimerCopies(tasks', d, a) > TimerCopies(tasks, d, a))
             => AttemptFailed']_vars
    /\ [][last'.op = "timer"
             => /\ TimerCopies(tasks', last'.dev, last'.attempts)
                       = TimerCopies(tasks, last'.dev, last'.attempts) - 1
                /\ ConnectsInFlight' = ConnectsInFlight + 1
                /\ CopiesIn(ConnectTask(last'.dev, last'.attempts, "connectToDevice", FALSE),
                            tasks')
                       = CopiesIn(ConnectTask(last'.dev, last'.attempts, "connectToDevice",
                                              FALSE), tasks) + 1]_vars

\* the third attempt of a connectToDevice has failed and no timer is pending
C4_Witness ==
    /\ AttemptFailed
    /\ last.attempts = MAX_RECONNECT_ATTEMPTS - 1
    /\ Pending("timer") = {}

\* C5: when a connect attempt that succeeded completes, the reconnect-attempt
\* counter is 0, whether the detail fetch went through or threw.
C5_SuccessResetsCounter == AttemptSucceeded => reconnectAttempts = 0

\* a successful attempt completed with the detail fetch failing, the counter
\* having been above 0
C5_Witness == AttemptSucceeded /\ last.op = "services" /\ ~last.ok /\ last.was > 0

\* C6: the registry holds at most one entry per device id and none without a name.
C6_RegistryDeduplicated ==
    /\ \A i, j \in DOMAIN devices : devices[i].id = devices[j].id => i = j
    /\ \A i \in DOMAIN devices : devices[i].name # Null /\ devices[i].name # ""

\* both peripherals are registered and a further advertisement was dropped
C6_Witness == Len(devices) = 2 /\ last.op = "scanResult" /\ ~last.added

\* C7: right after scanDevices the registry is empty and the connected device and
\* the detail are null.
C7_ScanClears ==
    last.op = "scanDevices"
        => devices = <<>> /\ connectedDevice = Null /\ deviceDetails = NoDetails

\* scanDevices ran with a device connected, its detail present and a connect in
\* flight
C7_Witness ==
    /\ last.op = "scanDevices"
    /\ last.was.connected # Null /\ last.was.details /\ last.was.count > 0
    /\ last.was.connecting

\* C8: when the detail fetch completes the detail is set, lists the discovered
\* services, and maps each service whose characteristics() threw to the empty list
\* and each other service to the characteristics the peripheral has for it.
C8_FailureIsolated ==
    last.op = "characteristics"
        => /\ deviceDetails # NoDetails
           /\ deviceDetails.services = gatt[last.dev].services
           /\ DOMAIN deviceDetails.characteristics = Range(gatt[last.dev].services)
           /\ \A s \in Range(gatt[last.dev].services) :
                  /\ s \in last.failed => deviceDetails.characteristics[s] = <<>>
                  /\ s \notin last.failed =>
                         deviceDetails.characteristics[s] = gatt[last.dev].characteristics[s]

\* the battery service's discovery threw and the other service kept its
\* characteristics
C8_Witness ==
    /\ last.op = "characteristics"
    /\ last.failed = {BatteryService}
    /\ deviceDetails # NoDetails
    /\ deviceDetails.characteristics[InfoService] # <<>>

IsHexString(value) == value # <<>> /\ \A i \in DOMAIN value : IsHexDigit(value[i])

\* the number a string of hexadecimal digits denotes
RECURSIVE HexValue(_)
HexValue(value) ==
    IF value = <<>> THEN 0
    ELSE 16 * HexValue(SubSeq(value, 1, Len(value) - 1)) + DigitValue(value[Len(value)])

\* C9: for the connected device's item, the battery text is "NA" when the detail
\* has no service 180F, no characteristic 2A19 in it or no value for it, and
\* otherwise, the value being a string of hexadecimal digits, it is the number the
\* value denotes.
C9_BatteryShown ==
    \A i \in DOMAIN devices :
        (ItemIsConnected(devices[i]) /\ deviceDetails # NoDetails) =>
            LET text == BatteryText(ItemBatteryLevel(devices[i]))
                list == IF BatteryService \in DOMAIN deviceDetails.characteristics
                        THEN deviceDetails.characteristics[BatteryService]
                        ELSE <<>>
                k == FindCharacteristic(list, BatteryCharacteristic)
            IN  IF k = 0 \/ list[k].value \in {NoValue, <<>>}
                THEN text = <<"N", "A">>
                ELSE IsHexString(list[k].value)
                         => text = Decimal(HexValue(list[k].value)) \o <<"%">>

\* C10: at most one connectToDevice call is awaiting the BLE stack.
C10_OneConnectInFlight == ConnectsInFlight <= 1

\* C11: a timer that fires right after a connect succeeded (it was scheduled
\* before that success) starts no connect attempt and leaves the connected
\* device, the detail and isConnecting as they are.
C11_SupersededTimerIsNoOp ==
    [][(AttemptSucceeded /\ last'.op = "timer")
          => /\ ConnectsInFlight' = ConnectsInFlight
             /\ connectedDevice' = connectedDevice
             /\ deviceDetails' = deviceDetails
             /\ isConnecting' = isConnecting]_vars

\* C12: isConnecting is true exactly while a connectToDevice call is awaiting the
\* BLE stack: false while only timers are pending and after the last failure,
\* never false while an attempt is in flight.
C12_ConnectingIffInFlight == isConnecting <=> ConnectsInFlight > 0

\* C13: once the listener of the disconnect event has handled an event, with or
\* without an error, the connected device and the detail are null and a
\* handleDisconnect call for the device is on its way (the path a pressed
\* disconnect takes).
C13_EventClearsConnection ==
    (\/ last.op = "onDeviceDisconnected"
     \/ last.op = "handleDisconnect" /\ last.by = "event")
        => /\ connectedDevice = Null
           /\ deviceDetails = NoDetails
           /\ \E t \in Pending("disconnect") : t.dev = last.dev /\ t.by = "event"

\* handleDisconnect has just run up to its await
DisconnectCalled ==
    \/ last.op = "handleDisconnect"
    \/ last.op = "switchToDevice" /\ last.from # Null

\* C14: when handleDisconnect(deviceId) has issued cancelDeviceConnection the
\* connected device and the detail are already null; and when that call returns,
\* if auto-reconnect was enabled and the counter below the maximum for the
\* handler, exactly one reconnect timer for deviceId is added.
C14_DisconnectClearsAndSchedules ==
    /\ [](DisconnectCalled
             => /\ connectedDevice = Null
                /\ deviceDetails = NoDetails
                /\ Pending("disconnect") # {})
    /\ [][(last'.op = "cancelDeviceConnection" /\ last'.wanted)
             => TimerCopies(tasks', last'.dev, 0) = TimerCopies(tasks, last'.dev, 0) + 1]_vars

\* C15: the reconnect-attempt counter is between 0 and MAX_RECONNECT_ATTEMPTS.
C15_CounterWithinMax == reconnectAttempts \in 0..MAX_RECONNECT_ATTEMPTS

\* C16: when the detail is not null a device is connected and the detail is the
\* one fetched from that device (it lists that device's services).
C16_DetailOfConnectedDevice ==
    deviceDetails # NoDetails
        => /\ connectedDevice # Null
           /\ deviceDetails.services = gatt[connectedDevice].services

\* a switchToDevice call has not returned
SwitchInProgress == \E t \in BagToSet(tasks) : SwitchCall(t)

\* C17: shouldReconnect is false only while a switchToDevice is in progress, it
\* is true when a switchToDevice has returned, and, the BLE calls of every
\* switchToDevice returning, whenever it is false it is true again later.
C17_ReconnectReenabled ==
    /\ [](~shouldReconnect => SwitchInProgress)
    /\ [](SwitchReturned => shouldReconnect)
    /\ (~shouldReconnect ~> shouldReconnect)

\* a switchToDevice that disconnected the connected device has returned after
\* its connect to the other device failed
C17_Witness ==
    /\ SwitchReturned /\ ~last.ok
    /\ last.op \in {"connectToDevice", "discoverAll"}
    /\ shouldReconnect
    /\ ~SwitchInProgress

\* a connected device and its detail are both present
BothPresent == connectedDevice # Null /\ deviceDetails # NoDetails

\* the step into this state called setConnectedDevice(device) or
\* setDeviceDetails({...})
SetDeviceOrDetails ==
    \/ last.op = "discoverAll" /\ last.ok
    \/ last.op = "characteristics"

\* C18 as stated: the modal is visible in every state where a connected device
\* and its detail are both present, and it goes from visible to hidden only by
\* the user's close action.
C18_ModalVisibleWhilePresent ==
    /\ [](BothPresent => modalVisible)
    /\ [][(modalVisible /\ ~modalVisible') => last'.op = "closeModal"]_vars

\* C18 amended: the modal is visible after every step that sets the connected
\* device or the detail and leaves both present, and after every step that
\* makes both present; it goes from visible to hidden only by the user's close
\* action.
C18_ModalOpensAndStays ==
    /\ [][(BothPresent' /\ (SetDeviceOrDetails' \/ ~BothPresent)) => modalVisible']_vars
    /\ [][(modalVisible /\ ~modalVisible') => last'.op = "closeModal"]_vars

\* the modal is still shown after the disconnect event cleared the connected
\* device and the detail
C18_Witness ==
    /\ modalVisible
    /\ last.op = "handleDisconnect" /\ last.by = "event"
    /\ ~BothPresent

\* C19: a connect attempt that fails (the underlying connect or the discovery
\* throws) leaves the connected device, the detail, the registry, the counter,
\* the scan and the modal as they are; isConnecting is false after it; of the
\* pending calls and timers only the failed call goes and, when its attempt
\* number is below 2, one retry timer for the same device comes; shouldReconnect
\* changes only by the switchToDevice that awaited the call.
C19_FailedAttemptFrame ==
    [][AttemptFailed'
          => /\ connectedDevice' = connectedDevice
             /\ deviceDetails' = deviceDetails
             /\ devices' = devices
             /\ reconnectAttempts' = reconnectAttempts
             /\ scanning' = scanning
             /\ modalVisible' = modalVisible
             /\ isConnecting' = FALSE
             /\ shouldReconnect' # shouldReconnect => last'.sw
             /\ \E t \in Pending("connect") :
                    /\ t.dev = last'.dev /\ t.attempts = last'.attempts
                    /\ t.sw = last'.sw /\ t.pc = last'.op
                    /\ tasks' = IF t.attempts < MAX_RECONNECT_ATTEMPTS - 1
                                THEN Add(Remove(tasks, t), Timer(t.dev, t.attempts + 1))
                                ELSE Remove(tasks, t)]_vars

\* an attempt failed while a device was connected, its detail present, the
\* registry not empty and the counter above 0
C19_Witness ==
    /\ AttemptFailed
    /\ BothPresent
    /\ devices # <<>>
    /\ reconnectAttempts > 0

====
